---------------------------- MODULE Spec2Model ----------------------------
(***************************************************************************)
(* Linac QA Management System: the QA session store (save_qa_report,       *)
(* view_report, history_page), the output trend store                      *)
(* (save_output_reading, trends_page), the dashboard's due status, the     *)
(* unit and user registries (save_unit, save_user), login, logout, backup, *)
(* export and the audit log, as the handlers of main.py drive the SQLite   *)
(* database.                                                               *)
(*                                                                         *)
(* The database is modelled by its committed tables (users, units,        *)
(* reports, tests, readings, audit_log), which are all a reader sees, and  *)
(* per request in flight the QAReport row its handler holds (report): the  *)
(* row is flushed but not committed while pc is "flushed".  SQLite does    *)
(* not enforce the ForeignKey declarations (no PRAGMA foreign_keys) nor    *)
(* the String lengths.                                                     *)
(*                                                                         *)
(* save_qa_report is split at its database rounds (auth, flush, commit,    *)
(* audit commit), so that other requests interleave; each input of the     *)
(* request is drawn at the step that first reads it.  Dates are day        *)
(* numbers and BadDate is a string "%Y-%m-%d" does not parse.  Columns no  *)
(* handler modelled here reads back (witness, comments, signature, notes,  *)
(* measurement, ip_address, the timestamps) are left out of the rows.      *)
(***************************************************************************)
EXTENDS Integers, Sequences, FiniteSets, TLC

VARIABLES users, units, sessions, reports, tests, audit_log, readings,
          backups, pc, user, req, report, out_result

vars == <<users, units, sessions, reports, tests, audit_log, readings,
          backups, pc, user, req, report, out_result>>

(* what is kept on disk: the tables and the files of the backup directory *)
db_vars == <<users, units, reports, tests, audit_log, readings, backups>>

proc_vars == <<pc, user, req, report>>

----------------------------------------------------------------------------
(* Bounds of the model *)

NumProcs == 2
MaxReports == 2
MaxLogins == 1
MaxReadings == 2
MaxDay == 2

Procs == 1..NumProcs
Dates == 1..MaxDay
BadDate == 0
DateInputs == Dates \cup {BadDate}

----------------------------------------------------------------------------
(* Reference data: models.py SASQART_TESTS, the ids in checklist order *)

SASQART_TESTS ==
    [daily |-> <<"DL1", "DL2", "DL3", "DL4", "DL5", "DL6", "DL7", "DL8", "DL9">>,
     monthly |-> <<"ML1", "ML2", "ML3", "ML4", "ML5", "ML6", "ML7", "ML8",
                   "ML9", "ML10", "ML11", "ML12", "ML13", "ML14", "ML15", "ML16">>,
     quarterly |-> <<"Q1">>,
     annual |-> <<"AL1", "AL2", "AL3", "AL4", "AL5", "AL6", "AL7", "AL8", "AL9",
                  "AL10", "AL11", "AL12", "AL13", "AL14", "AL15", "AL16", "AL17",
                  "AL18">>]

SessionTypes == DOMAIN SASQART_TESTS

Range(s) == {s[i] : i \in DOMAIN s}

(* the item ids of a session type *)
ItemIds(qa_type) == Range(SASQART_TESTS[qa_type])

(* the documented values of QATest.status: pass, fail, na, or empty *)
Unset == ""
StatusValues == {"pass", "fail", "na", Unset}

----------------------------------------------------------------------------
(* Request inputs *)

QaTypeInputs == SessionTypes \cup {"weekly"}
StatusInputs == StatusValues \cup {"bogus"}
FormIds == {"DL1", "Q1"}
UnitIdInputs == {1, 2, 9}

(* the status_<id> fields of a submitted form: (item id, status) pairs, *)
(* one per field name                                                    *)
Forms ==
    {f \in SUBSET [id : FormIds, status : StatusInputs] :
       \A a, b \in f : a.id = b.id => a = b}

(* form_data.get("status_<id>", "") *)
FormGet(form, id) ==
    IF \E e \in form : e.id = id
      THEN (CHOOSE e \in form : e.id = id).status
      ELSE ""

(* the session cookie: absent, or a signed token carrying a user_id *)
NoToken == [user_id |-> 0, expired |-> FALSE]
TokenInputs ==
    {NoToken} \cup [user_id : sessions, expired : BOOLEAN]

NoUser == 0
NoRow == [id |-> 0]
NoReq == [ids |-> {}]

----------------------------------------------------------------------------
(* Helpers over the tables *)

MaxOf(S) == IF S = {} THEN 0 ELSE CHOOSE x \in S : \A y \in S : y <= x

(* SQLite INTEGER PRIMARY KEY: the next rowid is the largest one plus 1 *)
NextId(rows) == MaxOf({r.id : r \in rows}) + 1

(* str.upper() on the qa_type path parameter *)
Upper(s) ==
    CASE s = "daily" -> "DAILY"
      [] s = "monthly" -> "MONTHLY"
      [] s = "quarterly" -> "QUARTERLY"
      [] s = "annual" -> "ANNUAL"
      [] s = "weekly" -> "WEEKLY"
      [] OTHER -> s

(* auth.py verify_session_token: the token's data, or None *)
verify_session_token(token) ==
    IF token.expired THEN NoUser ELSE token.user_id

(* a lookup of the token's user that does not read the active flag *)
get_current_user_IgnoresActive(token) ==
    IF token = NoToken THEN NoUser
    ELSE IF verify_session_token(token) = NoUser THEN NoUser
    ELSE IF verify_session_token(token) \notin DOMAIN users THEN NoUser
    ELSE verify_session_token(token)

(* auth.py get_current_user: the user of a valid token, if still active *)
get_current_user(token) ==
    IF token = NoToken THEN NoUser
    ELSE IF verify_session_token(token) = NoUser THEN NoUser
    ELSE IF verify_session_token(token) \notin DOMAIN users THEN NoUser
    ELSE IF ~users[verify_session_token(token)].active THEN NoUser
    ELSE verify_session_token(token)

(* an audit write that replaces the newest entry instead of adding one *)
log_audit_Overwrite(username, action, details) ==
    audit_log' =
      IF audit_log = <<>>
        THEN <<[user |-> username, action |-> action, details |-> details]>>
        ELSE [audit_log EXCEPT ![Len(audit_log)] =
                [user |-> username, action |-> action, details |-> details]]

(* auth.py log_audit: one row appended and committed *)
log_audit(username, action, details) ==
    audit_log' = Append(audit_log,
                        [user |-> username, action |-> action, details |-> details])

(* SQLite admits one writing transaction at a time *)
WriteLockFree(p) == \A q \in Procs \ {p} : pc[q] # "flushed"

----------------------------------------------------------------------------
(* Startup: init_db, create_default_admin, create_default_units *)

Init ==
    /\ users = (1 :> [username |-> "admin", role |-> "admin", active |-> TRUE])
    /\ units = (1 :> [name |-> "Linac 1", active |-> TRUE]
                @@ 2 :> [name |-> "TrueBeam", active |-> TRUE])
    /\ sessions = {}
    /\ reports = {}
    /\ tests = {}
    /\ audit_log = <<>>
    /\ readings = {}
   /\ backups = {}
    /\ pc = [p \in Procs |-> "idle"]
    /\ user = [p \in Procs |-> NoUser]
    /\ req = [p \in Procs |-> NoReq]
    /\ report = [p \in Procs |-> NoRow]
    /\ out_result = ""

----------------------------------------------------------------------------
(* POST /login *)

UsernameInputs == {"admin", "nobody"}

CountAction(action) ==
    Cardinality({i \in DOMAIN audit_log : audit_log[i].action = action})

login(username, password_ok) ==
    LET found == {u \in DOMAIN users : users[u].username = username} IN
    /\ WriteLockFree(0)
    /\ CountAction("LOGIN") < MaxLogins
    /\ IF found = {} \/ ~password_ok
         THEN UNCHANGED vars
         ELSE LET u == CHOOSE x \in found : TRUE IN
              IF ~users[u].active
                THEN UNCHANGED vars
                ELSE /\ sessions' = sessions \cup {u}
                     /\ log_audit(users[u].username, "LOGIN", "User logged in")
                     /\ UNCHANGED <<backups, users, units, reports, tests, readings,
                                    proc_vars, out_result>>

----------------------------------------------------------------------------
(* POST /qa/{qa_type}: save_qa_report, one step per database round *)

(* the response is sent and the handler's objects are dropped; an        *)
(* exception closes the session, which rolls its open transaction back   *)
Finish(p) ==
    /\ pc' = [pc EXCEPT ![p] = "idle"]
    /\ user' = [user EXCEPT ![p] = NoUser]
    /\ req' = [req EXCEPT ![p] = NoReq]
    /\ report' = [report EXCEPT ![p] = NoRow]

(* get_current_user; a caller without a user is redirected to /login;   *)
(* otherwise the form is awaited                                         *)
qa_begin(p, token) ==
    /\ pc[p] = "idle"
    /\ IF get_current_user(token) = NoUser
         THEN UNCHANGED <<pc, user>>
         ELSE /\ pc' = [pc EXCEPT ![p] = "authed"]
              /\ user' = [user EXCEPT ![p] = get_current_user(token)]
    /\ UNCHANGED <<db_vars, sessions, req, report, out_result>>

(* qa_flush with db.commit() in place of db.flush(): the header is      *)
(* visible before its tests exist                                        *)
qa_flush_commits(p, qa_type, qa_date, unit_id, has_performer) ==
    /\ pc[p] = "authed"
    /\ IF qa_date = BadDate \/ ~has_performer
         THEN Finish(p) /\ UNCHANGED reports
         ELSE /\ WriteLockFree(p)
              /\ Cardinality(reports) < MaxReports
              /\ report' = [report EXCEPT ![p] =
                              [id |-> NextId(reports), date |-> qa_date,
                               qa_type |-> qa_type, unit_id |-> unit_id,
                               created_by |-> user[p]]]
              /\ reports' = reports \cup {report'[p]}
              /\ pc' = [pc EXCEPT ![p] = "flushed"]
              /\ UNCHANGED <<user, req>>
    /\ UNCHANGED <<backups, users, units, tests, audit_log, readings, sessions, out_result>>

(* a flush that refuses a second report of one unit, date and type *)
qa_flush_OnePerKey(p, qa_type, qa_date, unit_id, has_performer) ==
    /\ pc[p] = "authed"
    /\ IF \/ qa_date = BadDate \/ ~has_performer
          \/ \E r \in reports :
               r.unit_id = unit_id /\ r.date = qa_date /\ r.qa_type = qa_type
         THEN Finish(p)
         ELSE /\ WriteLockFree(p)
              /\ Cardinality(reports) < MaxReports
              /\ report' = [report EXCEPT ![p] =
                              [id |-> NextId(reports), date |-> qa_date,
                               qa_type |-> qa_type, unit_id |-> unit_id,
                               created_by |-> user[p]]]
              /\ pc' = [pc EXCEPT ![p] = "flushed"]
              /\ UNCHANGED <<user, req>>
    /\ UNCHANGED <<db_vars, sessions, out_result>>

(* QAReport(...); db.add(report); db.flush().  strptime raises on a bad  *)
(* date (ValueError), the flush on a missing performer (IntegrityError)  *)
qa_flush(p, qa_type, qa_date, unit_id, has_performer) ==
    /\ pc[p] = "authed"
    /\ IF qa_date = BadDate \/ ~has_performer
         THEN Finish(p)
         ELSE /\ WriteLockFree(p)
              /\ Cardinality(reports) < MaxReports
              /\ report' = [report EXCEPT ![p] =
                              [id |-> NextId(reports), date |-> qa_date,
                               qa_type |-> qa_type, unit_id |-> unit_id,
                               created_by |-> user[p]]]
              /\ pc' = [pc EXCEPT ![p] = "flushed"]
              /\ UNCHANGED <<user, req>>
    /\ UNCHANGED <<db_vars, sessions, out_result>>

(* BuildTests looping over the submitted fields as well as the registry *)
BuildTests_AllSubmitted(report_id, qa_type, form, base) ==
    {[id |-> base + i,
      report_id |-> report_id,
      test_id |-> SASQART_TESTS[qa_type][i],
      status |-> FormGet(form, SASQART_TESTS[qa_type][i])] :
        i \in 1..Len(SASQART_TESTS[qa_type])}
    \cup
    {[id |-> base + Len(SASQART_TESTS[qa_type]) + 1,
      report_id |-> report_id,
      test_id |-> e.id,
      status |-> e.status] : e \in {x \in form : x.id \notin ItemIds(qa_type)}}

(* BuildTests looping over the daily checklist whatever the type *)
BuildTests_DailyOnly(report_id, qa_type, form, base) ==
    {[id |-> base + i,
      report_id |-> report_id,
      test_id |-> SASQART_TESTS["daily"][i],
      status |-> FormGet(form, SASQART_TESTS["daily"][i])] :
        i \in 1..Len(SASQART_TESTS["daily"])}

(* BuildTests skipping the items the form left out *)
BuildTests_OnlySubmitted(report_id, qa_type, form, base) ==
    {[id |-> base + i,
      report_id |-> report_id,
      test_id |-> SASQART_TESTS[qa_type][i],
      status |-> FormGet(form, SASQART_TESTS[qa_type][i])] :
        i \in {j \in 1..Len(SASQART_TESTS[qa_type]) :
                 \E e \in form : e.id = SASQART_TESTS[qa_type][j]}}

(* the loop over SASQART_TESTS[qa_type]: one QATest per checklist item *)
BuildTests(report_id, qa_type, form, base) ==
    {[id |-> base + i,
      report_id |-> report_id,
      test_id |-> SASQART_TESTS[qa_type][i],
      status |-> FormGet(form, SASQART_TESTS[qa_type][i])] :
        i \in 1..Len(SASQART_TESTS[qa_type])}

(* the test loop and db.commit(): SASQART_TESTS[qa_type] raises KeyError *)
(* for an unknown type.  req keeps the item ids the form carried.        *)
qa_commit(p, form) ==
    /\ pc[p] = "flushed"
    /\ IF report[p].qa_type \notin DOMAIN SASQART_TESTS
         THEN /\ Finish(p)
              /\ UNCHANGED <<reports, tests>>
         ELSE /\ reports' = reports \cup {report[p]}
              /\ tests' = tests \cup BuildTests(report[p].id, report[p].qa_type,
                                                form, MaxOf({t.id : t \in tests}))
              /\ pc' = [pc EXCEPT ![p] = "committed"]
              /\ req' = [req EXCEPT ![p] = [ids |-> {e.id : e \in form}]]
              /\ UNCHANGED <<user, report>>
    /\ UNCHANGED <<backups, users, units, audit_log, readings, sessions, out_result>>

(* the unit lookup and log_audit(..., "SAVE_QA", ...): unit.name raises  *)
(* AttributeError when no unit has the report's unit_id                  *)
qa_audit(p) ==
    /\ pc[p] = "committed"
    /\ IF report[p].unit_id \notin DOMAIN units
         THEN /\ Finish(p)
              /\ UNCHANGED audit_log
         ELSE /\ WriteLockFree(p)
              /\ log_audit(users[user[p]].username, "SAVE_QA",
                           [qa_type |-> Upper(report[p].qa_type),
                            unit |-> units[report[p].unit_id].name,
                            date |-> report[p].date])
              /\ Finish(p)
    /\ UNCHANGED <<backups, users, units, reports, tests, readings, sessions, out_result>>

(* GET /report/{report_id}: redirect without a user, 404 without the    *)
(* report, else the report with the QATest rows of its tests relation    *)
view_report(token, report_id) ==
    LET found == {r \in reports : r.id = report_id} IN
    IF get_current_user(token) = NoUser
      THEN [status |-> 303, report |-> NoRow, tests |-> {}]
    ELSE IF found = {}
      THEN [status |-> 404, report |-> NoRow, tests |-> {}]
    ELSE [status |-> 200,
          report |-> CHOOSE r \in found : TRUE,
          tests |-> {t \in tests : t.report_id = report_id}]

----------------------------------------------------------------------------
(* POST /api/output-reading *)

EnergyInputs == {"6MV"}
ReadingInputs == {98, 103}
ReferenceInputs == {0, 96, 100}
ReadingUnitInputs == {1, 2}

ReadingData ==
    [date : DateInputs, unit_id : ReadingUnitInputs, energy : EnergyInputs,
     reading : ReadingInputs, reference : ReferenceInputs]

Abs(x) == IF x < 0 THEN -x ELSE x

RECURSIVE GCD(_, _)
GCD(a, b) == IF b = 0 THEN a ELSE GCD(b, a % b)

(* the quotient n / d (d # 0) as a fraction in lowest terms, den > 0;     *)
(* Python's float arithmetic is taken as exact                            *)
Frac(n, d) ==
    LET g == GCD(Abs(n), Abs(d))
        sign == IF d < 0 THEN -1 ELSE 1
    IN [num |-> sign * (n \div g), den |-> sign * (d \div g)]

(* Deviation dividing by the reading instead of the reference *)
Deviation_ByReading(reading, reference) ==
    LET q == Frac(reading - reference, reading)
    IN Frac(q.num * 100, q.den)

(* ((data["reading"] - data["reference"]) / data["reference"]) * 100 *)
Deviation(reading, reference) ==
    LET q == Frac(reading - reference, reference)
    IN Frac(q.num * 100, q.den)

(* save_output_reading storing a zero deviation when reference is 0,    *)
(* instead of raising                                                    *)
save_output_reading_ZeroTolerant(token, data) ==
    /\ IF get_current_user(token) = NoUser
         THEN /\ out_result' = "401 Authentication required"
              /\ UNCHANGED readings
         ELSE IF data.date = BadDate
         THEN /\ out_result' = "500 ValueError"
              /\ UNCHANGED readings
         ELSE /\ WriteLockFree(0)
              /\ Cardinality(readings) < MaxReadings
              /\ readings' = readings \cup
                   {[id |-> NextId(readings), date |-> data.date,
                     unit_id |-> data.unit_id, energy |-> data.energy,
                     reading |-> data.reading, reference |-> data.reference,
                     deviation |-> IF data.reference = 0
                                     THEN Frac(0, 1)
                                     ELSE Deviation(data.reading, data.reference)]}
              /\ out_result' = "200 ok"
    /\ UNCHANGED <<backups, users, units, sessions, reports, tests, audit_log, proc_vars>>

(* the whole handler: 401 without a user; strptime raises ValueError on  *)
(* a bad date; the division raises ZeroDivisionError on reference 0;     *)
(* otherwise the row is added and committed                              *)
save_output_reading(token, data) ==
    /\ IF get_current_user(token) = NoUser
         THEN /\ out_result' = "401 Authentication required"
              /\ UNCHANGED readings
         ELSE IF data.date = BadDate
         THEN /\ out_result' = "500 ValueError"
              /\ UNCHANGED readings
         ELSE IF data.reference = 0
         THEN /\ out_result' = "500 ZeroDivisionError"
              /\ UNCHANGED readings
         ELSE /\ WriteLockFree(0)
              /\ Cardinality(readings) < MaxReadings
              /\ readings' = readings \cup
                   {[id |-> NextId(readings), date |-> data.date,
                     unit_id |-> data.unit_id, energy |-> data.energy,
                     reading |-> data.reading, reference |-> data.reference,
                     deviation |-> Deviation(data.reading, data.reference)]}
              /\ out_result' = "200 ok"
    /\ UNCHANGED <<backups, users, units, sessions, reports, tests, audit_log, proc_vars>>

----------------------------------------------------------------------------

Next ==
    \/ \E username \in UsernameInputs, password_ok \in BOOLEAN :
         login(username, password_ok)
    \/ \E p \in Procs, token \in TokenInputs : qa_begin(p, token)
    \/ \E p \in Procs, qa_type \in QaTypeInputs, qa_date \in DateInputs,
          unit_id \in UnitIdInputs, has_performer \in BOOLEAN :
         qa_flush(p, qa_type, qa_date, unit_id, has_performer)
    \/ \E p \in Procs, form \in Forms : qa_commit(p, form)
    \/ \E p \in Procs : qa_audit(p)

Spec == Init /\ [][Next]_vars

(* the output trend store on its own: logins and output readings *)
NextOutput ==
    \/ \E username \in UsernameInputs, password_ok \in BOOLEAN :
         login(username, password_ok)
    \/ \E token \in TokenInputs, data \in ReadingData :
         save_output_reading(token, data)

SpecOutput == Init /\ [][NextOutput]_vars

----------------------------------------------------------------------------
(* Properties of the QA session store, checked under Spec *)

TestsOf(report_id) == {t \in tests : t.report_id = report_id}
TestIdsOf(report_id) == {t.test_id : t \in TestsOf(report_id)}
TokenOf(u) == [user_id |-> u, expired |-> FALSE]
Quiescent == \A p \in Procs : pc[p] = "idle"

(* the ids a committed request submitted that its type's checklist lacks *)
UnknownIds(p) == req[p].ids \ ItemIds(report[p].qa_type)

C2_ReportsReferenceUnits ==
    \A r \in reports : r.unit_id \in DOMAIN units

(* C3: the committed tables, which are all a reader sees, never hold a   *)
(* report whose QATest rows are not the full checklist of its type, nor  *)
(* a QATest row without its report; this in every reachable state, also  *)
(* while another request has flushed its header or has failed partway.   *)
C3_AtomicVisibility ==
    /\ \A r \in reports :
         /\ r.qa_type \in SessionTypes
         /\ TestIdsOf(r.id) = ItemIds(r.qa_type)
    /\ \A t \in tests : \E r \in reports : r.id = t.report_id

C3_Witness ==
    \E p, q \in Procs :
      /\ pc[p] = "flushed"
      /\ report[p].qa_type \notin SessionTypes
      /\ report[p] \notin reports
      /\ pc[q] = "committed"
      /\ report[q] \in reports

(* C4: every persisted QATest has a test_id of the checklist of its      *)
(* report's qa_type, and no report owns two rows with the same test_id.  *)
C4_TestIdsFromRegistry ==
    /\ \A r \in reports : \A t \in TestsOf(r.id) :
         r.qa_type \in SessionTypes /\ t.test_id \in ItemIds(r.qa_type)
    /\ \A t1, t2 \in tests :
         (t1.report_id = t2.report_id /\ t1.test_id = t2.test_id) => t1.id = t2.id

C4_Witness ==
    \E r1, r2 \in reports :
      /\ r1.id # r2.id
      /\ r1.qa_type = "monthly"
      /\ r2.qa_type = "annual"
      /\ Cardinality(TestsOf(r1.id)) = 16
      /\ Cardinality(TestsOf(r2.id)) = 18

(* C5: after a createSession committed, view_report of the new report    *)
(* returns exactly len(SASQART_TESTS[qa_type]) QATest rows, one per      *)
(* checklist item, and every item the form left out has status unset.    *)
C5_BackfillUnset ==
    \A p \in Procs :
      pc[p] = "committed" =>
        \A token \in TokenInputs :
          get_current_user(token) # NoUser =>
            LET v == view_report(token, report[p].id) IN
            /\ v.status = 200
            /\ v.report = report[p]
            /\ Cardinality(v.tests) = Len(SASQART_TESTS[report[p].qa_type])
            /\ \A i \in ItemIds(report[p].qa_type) :
                 /\ Cardinality({t \in v.tests : t.test_id = i}) = 1
                 /\ i \notin req[p].ids =>
                      \A t \in v.tests : t.test_id = i => t.status = Unset

C5_Witness ==
    \E p \in Procs :
      /\ pc[p] = "committed"
      /\ report[p].qa_type = "daily"
      /\ req[p].ids = {"DL1"}
      /\ view_report(TokenOf(user[p]), report[p].id).status = 200
      /\ \E t \in TestsOf(report[p].id) : t.test_id = "DL1" /\ t.status = "pass"
      /\ \A t \in TestsOf(report[p].id) : t.test_id # "DL1" => t.status = Unset
      /\ Cardinality(TestsOf(report[p].id)) = 9

(* C6: a createSession with an unknown qaType is rejected before any     *)
(* write: no handler has flushed a QAReport row whose qa_type is not one *)
(* of the four session types.                                            *)
C6_TypeCheckedBeforeWrite ==
    \A p \in Procs : pc[p] = "flushed" => report[p].qa_type \in SessionTypes

(* C7: the status of every persisted QATest is one of pass, fail, n/a,   *)
(* unset.                                                                *)
C7_StatusInDomain ==
    \A t \in tests : t.status \in StatusValues

(* C8: in every quiescent state there are as many SAVE_QA audit entries  *)
(* as persisted reports, and every report has an entry naming its unit,  *)
(* session type and date.                                                *)
C8_OneAuditPerReport ==
    Quiescent =>
      /\ CountAction("SAVE_QA") = Cardinality(reports)
      /\ \A r \in reports :
           /\ r.unit_id \in DOMAIN units
           /\ \E i \in DOMAIN audit_log :
                /\ audit_log[i].action = "SAVE_QA"
                /\ audit_log[i].details =
                     [qa_type |-> Upper(r.qa_type),
                      unit |-> units[r.unit_id].name,
                      date |-> r.date]

----------------------------------------------------------------------------
(* Properties of the output trend store, checked under SpecOutput *)

(* C9: a save_output_reading with reference 0 fails, whatever the unit,  *)
(* date, energy and reading, and leaves the stored readings unchanged:   *)
(* every step either does both or is no such request.                    *)
C9_ZeroReferenceRejected ==
    [][\/ (readings' = readings /\ out_result' # "200 ok")
       \/ ~\E data \in {d \in ReadingData : d.reference = 0} :
             \E token \in TokenInputs : save_output_reading(token, data)]_vars

C9_Witness ==
    /\ out_result = "500 ZeroDivisionError"
    /\ readings # {}

(* C10: every stored reading's deviation is (reading - reference) /      *)
(* reference * 100 of its own reading and reference (98 against 100      *)
(* gives -2), and no step changes or removes a stored reading.           *)
C10_DeviationStored ==
    [][(\A r \in readings' :
          /\ r.reference # 0
          /\ r.deviation.den > 0
          /\ r.deviation.num * r.reference =
               (r.reading - r.reference) * 100 * r.deviation.den
          /\ (r.reading = 98 /\ r.reference = 100) =>
               r.deviation = [num |-> -2, den |-> 1])
       /\ (\A s \in readings : s \in readings')]_vars

C10_Witness ==
    /\ Cardinality(readings) = 2
    /\ \E r \in readings :
         r.reading = 98 /\ r.reference = 100 /\ r.deviation = [num |-> -2, den |-> 1]
    /\ \E r \in readings :
         r.reading = 98 /\ r.reference = 96 /\ r.deviation = [num |-> 25, den |-> 12]

----------------------------------------------------------------------------
(* GET / : the dashboard's QA status of every active unit *)

MonthlyWindowDays == 30

(* the clock readings date.today() is given, and the dates the sessions  *)
(* recorded under SpecDue carry: 31, 30, 1 and 0 days before the first   *)
TodayInputs == {40, 41}
DueDateInputs == {9, 10, 39, 40, 41}
DueTypeInputs == {"daily", "monthly"}
DueUnitInputs == {1, 2}

(* .filter(unit_id == ..., qa_type == ...).order_by(QAReport.date.desc()) *)
(* .first(): a row of the latest date, or None                            *)
last_report(unit_id, qa_type) ==
    LET rows == {r \in reports : r.unit_id = unit_id /\ r.qa_type = qa_type} IN
    IF rows = {} THEN NoRow
    ELSE CHOOSE r \in rows : \A other \in rows : other.date <= r.date

last_daily_AnyTypeOrUnit(unit_id) ==
    IF reports = {} THEN NoRow
    ELSE CHOOSE r \in reports : \A other \in reports : other.date <= r.date

last_daily(unit_id) == last_report(unit_id, "daily")

last_monthly(unit_id) == last_report(unit_id, "monthly")

monthly_due_From30Days(last, today) ==
    last = NoRow \/ today - last.date >= MonthlyWindowDays

daily_due_UpToToday(last, today) == last = NoRow \/ last.date <= today

daily_due(last, today) == last = NoRow \/ last.date < today

monthly_due(last, today) ==
    last = NoRow \/ today - last.date > MonthlyWindowDays

(* the qa_status list of the page, one entry per active unit *)
qa_status(today) ==
    {[unit |-> u,
      daily_due |-> daily_due(last_daily(u), today),
      monthly_due |-> monthly_due(last_monthly(u), today)] :
       u \in {x \in DOMAIN units : units[x].active}}

dashboard(token, today) ==
    IF get_current_user(token) = NoUser
      THEN [status |-> 303, qa_status |-> {}]
      ELSE [status |-> 200, qa_status |-> qa_status(today)]

(* logins and QA sessions of two types, two units and the dates above *)
NextDue ==
    \/ \E username \in UsernameInputs, password_ok \in BOOLEAN :
         login(username, password_ok)
    \/ \E token \in TokenInputs : qa_begin(1, token)
    \/ \E qa_type \in DueTypeInputs, qa_date \in DueDateInputs,
          unit_id \in DueUnitInputs :
         qa_flush(1, qa_type, qa_date, unit_id, TRUE)
    \/ qa_commit(1, {})
    \/ qa_audit(1)

SpecDue == Init /\ [][NextDue]_vars

----------------------------------------------------------------------------
(* Properties of the due status, checked under SpecDue *)

DatesOf(unit_id, qa_type) ==
    {r.date : r \in {x \in reports : x.unit_id = unit_id /\ x.qa_type = qa_type}}

StatusOf(token, today, unit_id) ==
    {e \in dashboard(token, today).qa_status : e.unit = unit_id}

(* C11: on the dashboard of a signed-in user every active unit has one   *)
(* entry, and its daily_due is true exactly when the unit has no daily   *)
(* report or all its daily reports are dated before today; a daily       *)
(* report dated today makes it false, and reports of other types or of   *)
(* other units do not enter.                                             *)
C11_DailyDue ==
    \A token \in TokenInputs, today \in TodayInputs :
      get_current_user(token) # NoUser =>
        \A u \in DOMAIN units :
          units[u].active =>
            /\ Cardinality(StatusOf(token, today, u)) = 1
            /\ \A e \in StatusOf(token, today, u) :
                 /\ e.daily_due <=>
                      (DatesOf(u, "daily") = {}
                         \/ \A d \in DatesOf(u, "daily") : d < today)
                 /\ today \in DatesOf(u, "daily") => ~e.daily_due

C11_Witness ==
    /\ sessions # {}
    /\ \E r \in reports : r.unit_id = 1 /\ r.qa_type = "daily" /\ r.date = 40
    /\ \E r \in reports : r.unit_id = 2 /\ r.qa_type = "monthly" /\ r.date = 41
    /\ \E e \in StatusOf(TokenOf(1), 40, 1) : ~e.daily_due
    /\ \E e \in StatusOf(TokenOf(1), 41, 1) : e.daily_due
    /\ \E e \in StatusOf(TokenOf(1), 40, 2) : e.daily_due

(* C12: on the same dashboard a unit's monthly_due is true exactly when  *)
(* the unit has no monthly report or today is more than 30 days after    *)
(* the latest date among its monthly reports: a latest report 30 days    *)
(* old leaves it false, one 31 days old makes it true.                   *)
C12_MonthlyDue ==
    \A token \in TokenInputs, today \in TodayInputs :
      get_current_user(token) # NoUser =>
        \A u \in DOMAIN units :
          units[u].active =>
            \A e \in StatusOf(token, today, u) :
              /\ e.monthly_due <=>
                   (DatesOf(u, "monthly") = {}
                      \/ today - MaxOf(DatesOf(u, "monthly")) > 30)
              /\ MaxOf(DatesOf(u, "monthly")) = today - 30 => ~e.monthly_due
              /\ MaxOf(DatesOf(u, "monthly")) = today - 31 => e.monthly_due

C12_Witness ==
    /\ sessions # {}
    /\ DatesOf(1, "monthly") = {9, 10}
    /\ DatesOf(2, "monthly") = {}
    /\ \E e \in StatusOf(TokenOf(1), 40, 1) : ~e.monthly_due
    /\ \E e \in StatusOf(TokenOf(1), 41, 1) : e.monthly_due
    /\ \E e \in StatusOf(TokenOf(1), 40, 2) : e.monthly_due

(* C13: the due status is computed from the committed reports, the units *)
(* and today alone: a step that changes neither leaves every unit's      *)
(* status as it was, and after every step a unit with a committed daily  *)
(* report dated today has daily_due false on a request made that day.    *)
C13_DueFromStoreOnly ==
    [][/\ \A today \in TodayInputs :
            \A r \in reports' :
              (r.qa_type = "daily" /\ r.date = today /\ r.unit_id \in DOMAIN units') =>
                \E e \in qa_status(today)' : e.unit = r.unit_id /\ ~e.daily_due
       /\ (reports' = reports /\ units' = units) =>
            \A today \in TodayInputs : qa_status(today)' = qa_status(today)]_vars

C13_Witness ==
    /\ Quiescent
    /\ Len(audit_log) = 3
    /\ DatesOf(2, "daily") = {9, 41}
    /\ dashboard(TokenOf(1), 41).status = 200
    /\ \E e \in dashboard(TokenOf(1), 41).qa_status :
         e.unit = 2 /\ ~e.daily_due /\ e.monthly_due

----------------------------------------------------------------------------
(* GET /history : the stored reports that pass the filters, newest first *)

HistoryDefaultDays == 30

(* a query parameter that is not supplied (None) or is empty *)
NoDate == -1
NoType == ""
NoUnit == 0

(* well-formed ISO dates as day numbers: they compare as the strings do *)
HistoryDateInputs == {NoDate, 10, 40}
HistoryTypeInputs == {NoType, "all", "daily"}
HistoryUnitInputs == {NoUnit, 1}

history_filter_AnyUnit(start_date, end_date, qa_type, unit_id, today) ==
    LET end == IF end_date = NoDate THEN today ELSE end_date
        start == IF start_date = NoDate
                   THEN today - HistoryDefaultDays ELSE start_date
        from_start == {r \in reports : r.date >= start}
        to_end == {r \in from_start : r.date <= end}
    IN IF qa_type # NoType /\ qa_type # "all"
         THEN {r \in to_end : r.qa_type = qa_type} ELSE to_end

(* the filters of the query, after the defaults of the date range *)
history_filter(start_date, end_date, qa_type, unit_id, today) ==
    LET end == IF end_date = NoDate THEN today ELSE end_date
        start == IF start_date = NoDate
                   THEN today - HistoryDefaultDays ELSE start_date
        from_start == {r \in reports : r.date >= start}
        to_end == {r \in from_start : r.date <= end}
        of_type == IF qa_type # NoType /\ qa_type # "all"
                     THEN {r \in to_end : r.qa_type = qa_type} ELSE to_end
    IN IF unit_id # NoUnit
         THEN {r \in of_type : r.unit_id = unit_id} ELSE of_type

(* every listing of the rows once each *)
Listings(rows) ==
    {s \in [1..Cardinality(rows) -> rows] :
       \A i, j \in DOMAIN s : i # j => s[i] # s[j]}

(* ORDER BY date DESC names no second key: rows of one date come in the  *)
(* order the query plan visits them, so each such listing is an outcome  *)
order_by_date_desc(rows) ==
    {s \in Listings(rows) :
       \A i, j \in DOMAIN s : i < j => s[i].date >= s[j].date}

(* the page's reports: each sequence the query can return *)
history_page(token, start_date, end_date, qa_type, unit_id, today) ==
    IF get_current_user(token) = NoUser
      THEN [status |-> 303, reports |-> {}]
      ELSE [status |-> 200,
            reports |-> order_by_date_desc(
                history_filter(start_date, end_date, qa_type, unit_id, today))]

----------------------------------------------------------------------------
(* Properties of the history query, checked under SpecDue *)

SeqRange(s) == {s[i] : i \in DOMAIN s}

(* the reports inside the date range from lo to hi, both included, that  *)
(* have the type and the unit asked for, if any is asked for              *)
Matching(lo, hi, qa_type, unit_id) ==
    {r \in reports :
       /\ lo <= r.date /\ r.date <= hi
       /\ (qa_type \notin {NoType, "all"} => r.qa_type = qa_type)
       /\ (unit_id # NoUnit => r.unit_id = unit_id)}

(* C14, as stated: the query returns exactly the stored reports that     *)
(* satisfy every supplied filter, and a filter that is not supplied      *)
(* restricts nothing, so that the query without filters returns every    *)
(* stored report.                                                        *)
C14_UnsuppliedUnrestricted ==
    \A token \in TokenInputs, today \in TodayInputs,
       start_date \in HistoryDateInputs, end_date \in HistoryDateInputs,
       qa_type \in HistoryTypeInputs, unit_id \in HistoryUnitInputs :
      get_current_user(token) # NoUser =>
        \A s \in history_page(token, start_date, end_date, qa_type, unit_id,
                              today).reports :
          SeqRange(s) =
            {r \in Matching(0, 99, qa_type, unit_id) :
               /\ (start_date # NoDate => start_date <= r.date)
               /\ (end_date # NoDate => r.date <= end_date)}

(* C14, amended: the query returns, each once, exactly the stored        *)
(* reports with start <= date <= end that have the qa_type and the unit  *)
(* asked for; a qa_type or unit that is not supplied (or the type "all") *)
(* restricts nothing, an end that is not supplied is today and a start   *)
(* that is not supplied is 30 days before today, so that the query       *)
(* without filters returns the reports of the last 30 days.              *)
C14_DefaultDateRange ==
    \A token \in TokenInputs, today \in TodayInputs,
       start_date \in HistoryDateInputs, end_date \in HistoryDateInputs,
       qa_type \in HistoryTypeInputs, unit_id \in HistoryUnitInputs :
      get_current_user(token) # NoUser =>
        LET page == history_page(token, start_date, end_date, qa_type,
                                 unit_id, today)
            lo == IF start_date = NoDate THEN today - 30 ELSE start_date
            hi == IF end_date = NoDate THEN today ELSE end_date
        IN /\ page.reports # {}
           /\ \A s \in page.reports :
                /\ SeqRange(s) = Matching(lo, hi, qa_type, unit_id)
                /\ Len(s) = Cardinality(Matching(lo, hi, qa_type, unit_id))

C14_Witness ==
    /\ sessions # {}
    /\ {r.date : r \in reports} = {9, 40}
    /\ {r.unit_id : r \in reports} = {1, 2}
    /\ \E s \in history_page(TokenOf(1), NoDate, NoDate, NoType, NoUnit, 40).reports :
         Len(s) = 1 /\ s[1].date = 40
    /\ \E s \in history_page(TokenOf(1), NoDate, 40, "all", NoUnit, 41).reports :
         Len(s) = 1 /\ s[1].date = 40
    /\ \E s \in history_page(TokenOf(1), 10, NoDate, "daily", 1, 40).reports :
         Len(s) = 0

(* C15: every sequence the query can return is non-increasing by report  *)
(* date, and two returned reports of the same date appear in the order   *)
(* of their insertion, which is the order of their ids.                  *)
C15_QueryOrder ==
    \A token \in TokenInputs, today \in TodayInputs,
       start_date \in HistoryDateInputs, end_date \in HistoryDateInputs,
       qa_type \in HistoryTypeInputs, unit_id \in HistoryUnitInputs :
      \A s \in history_page(token, start_date, end_date, qa_type, unit_id,
                            today).reports :
        \A i, j \in DOMAIN s :
          i < j => /\ s[i].date >= s[j].date
                   /\ s[i].date = s[j].date => s[i].id < s[j].id

----------------------------------------------------------------------------
(* GET /trends : the readings of one unit and energy, oldest first *)

NoEnergy == ""

(* the readings recorded under SpecTrend, and the queries put to them *)
TrendData ==
    [date : {1, 2, 3}, unit_id : ReadingUnitInputs, energy : {"6MV", "10MV"},
     reading : {98}, reference : {96, 100}]
TrendUnitInputs == {NoUnit, 1, 2}
TrendEnergyInputs == {NoEnergy, "6MV", "10MV"}
TrendDaysInputs == {0, 1, 30}
TrendTodayInputs == {3, 4}

trend_filter_AnyEnergy(unit_id, energy, start_date) ==
    {r \in readings : r.unit_id = unit_id /\ r.date >= start_date}

trend_filter(unit_id, energy, start_date) ==
    {r \in readings :
       r.unit_id = unit_id /\ r.energy = energy /\ r.date >= start_date}

(* ORDER BY date: readings of one date in the order the plan visits them *)
order_by_date(rows) ==
    {s \in Listings(rows) :
       \A i, j \in DOMAIN s : i < j => s[i].date <= s[j].date}

(* the sequences the readings query of the page can return *)
trend_readings(unit_id, energy, days, today) ==
    IF unit_id # NoUnit /\ energy # NoEnergy
      THEN order_by_date(trend_filter(unit_id, energy, today - days))
      ELSE {<<>>}

trend_data(rows) ==
    [i \in DOMAIN rows |->
       [date |-> rows[i].date, deviation |-> rows[i].deviation]]

trends_page(token, unit_id, energy, days, today) ==
    IF get_current_user(token) = NoUser
      THEN [status |-> 303, trend_data |-> {}]
      ELSE [status |-> 200,
            trend_data |->
              {trend_data(rows) :
                 rows \in trend_readings(unit_id, energy, days, today)}]

NextTrend ==
    \/ \E username \in UsernameInputs, password_ok \in BOOLEAN :
         login(username, password_ok)
    \/ \E token \in TokenInputs, data \in TrendData :
         save_output_reading(token, data)

SpecTrend == Init /\ [][NextTrend]_vars

----------------------------------------------------------------------------
(* Properties of the trend query, checked under SpecTrend *)

(* C16: for a unit, an energy and a number of days, with sinceDate the   *)
(* day that many days before today, every sequence the trend query can   *)
(* return lists, each once, exactly the stored readings of that unit and *)
(* energy dated on or after sinceDate, non-decreasing by date, and the   *)
(* page's trend data are their dates and deviations in that order.       *)
C16_TrendExact ==
    \A token \in TokenInputs, today \in TrendTodayInputs,
       days \in TrendDaysInputs, unit_id \in TrendUnitInputs \ {NoUnit},
       energy \in TrendEnergyInputs \ {NoEnergy} :
      get_current_user(token) # NoUser =>
        LET sinceDate == today - days
            stored == {r \in readings : /\ r.unit_id = unit_id
                                        /\ r.energy = energy
                                        /\ sinceDate <= r.date}
            page == trends_page(token, unit_id, energy, days, today)
        IN /\ trend_readings(unit_id, energy, days, today) # {}
           /\ \A s \in trend_readings(unit_id, energy, days, today) :
                /\ SeqRange(s) = stored
                /\ Len(s) = Cardinality(stored)
                /\ \A i, j \in DOMAIN s : i < j => s[i].date <= s[j].date
                /\ \E t \in page.trend_data :
                     /\ Len(t) = Len(s)
                     /\ \A i \in DOMAIN s :
                          t[i] = [date |-> s[i].date, deviation |-> s[i].deviation]

C16_Witness ==
    /\ sessions # {}
    /\ \E a, b \in readings :
         /\ a.unit_id = 1 /\ a.energy = "6MV" /\ a.date = 3 /\ a.id = 1
         /\ b.unit_id = 1 /\ b.energy = "10MV" /\ b.date = 2 /\ b.id = 2
    /\ trend_readings(1, "6MV", 1, 3) # {<<>>}
    /\ \A s \in trend_readings(1, "6MV", 1, 3) : Len(s) = 1 /\ s[1].id = 1
    /\ trend_readings(1, "10MV", 0, 3) = {<<>>}
    /\ \E t \in trends_page(TokenOf(1), 1, "10MV", 30, 3).trend_data :
         Len(t) = 1 /\ t[1].date = 2

----------------------------------------------------------------------------
(* POST /units : create a unit or update one *)

MaxUnits == 3
MaxAudit == 3

(* the unit_id field "new" (or none), and a name field that is absent *)
NewId == -1
SaveUnitIdInputs == {NewId, 1, 2, 3, 9}
UnitNameInputs == {"Linac 1", "TrueBeam", "Halcyon", "Versa HD"}

(* the row the request writes: a new Unit, or the unit it names *)
UnitTarget(unit_id) ==
    IF unit_id = NewId THEN MaxOf(DOMAIN units) + 1 ELSE unit_id

(* units.name is UNIQUE, NOT NULL: what the commit is refused for *)
UnitNameRefused(unit_id, has_name, name) ==
    \/ ~has_name
    \/ \E other \in DOMAIN units \ {UnitTarget(unit_id)} :
         units[other].name = name

UnitSaved(unit_id, name) ==
    IF unit_id = NewId
      THEN (UnitTarget(unit_id) :> [name |-> name, active |-> TRUE]) @@ units
      ELSE [units EXCEPT ![unit_id].name = name]

save_unit_NoUniqueIndex(token, unit_id, has_name, name) ==
    /\ IF get_current_user(token) = NoUser
         THEN /\ out_result' = "303 /login"
              /\ UNCHANGED <<units, audit_log>>
       ELSE IF unit_id # NewId /\ unit_id \notin DOMAIN units
         THEN /\ out_result' = "500 AttributeError"
              /\ UNCHANGED <<units, audit_log>>
       ELSE IF ~has_name
         THEN /\ out_result' = "500 IntegrityError"
              /\ UNCHANGED <<units, audit_log>>
         ELSE /\ WriteLockFree(0)
              /\ unit_id = NewId => Cardinality(DOMAIN units) < MaxUnits
              /\ Len(audit_log) < MaxAudit
              /\ units' = UnitSaved(unit_id, name)
              /\ log_audit(users[get_current_user(token)].username,
                           "SAVE_UNIT", [unit |-> name])
              /\ out_result' = "303 /units"
    /\ UNCHANGED <<users, sessions, reports, tests, readings, backups, proc_vars>>

save_unit(token, unit_id, has_name, name) ==
    /\ IF get_current_user(token) = NoUser
         THEN /\ out_result' = "303 /login"
              /\ UNCHANGED <<units, audit_log>>
       ELSE IF unit_id # NewId /\ unit_id \notin DOMAIN units
         THEN /\ out_result' = "500 AttributeError"
              /\ UNCHANGED <<units, audit_log>>
       ELSE IF UnitNameRefused(unit_id, has_name, name)
         THEN /\ out_result' = "500 IntegrityError"
              /\ UNCHANGED <<units, audit_log>>
         ELSE /\ WriteLockFree(0)
              /\ unit_id = NewId => Cardinality(DOMAIN units) < MaxUnits
              /\ Len(audit_log) < MaxAudit
              /\ units' = UnitSaved(unit_id, name)
              /\ log_audit(users[get_current_user(token)].username,
                           "SAVE_UNIT", [unit |-> name])
              /\ out_result' = "303 /units"
    /\ UNCHANGED <<users, sessions, reports, tests, readings, backups, proc_vars>>

NextUnits ==
    \/ \E username \in UsernameInputs, password_ok \in BOOLEAN :
         login(username, password_ok)
    \/ \E token \in TokenInputs, unit_id \in SaveUnitIdInputs,
          has_name \in BOOLEAN, name \in UnitNameInputs :
         save_unit(token, unit_id, has_name, name)

SpecUnits == Init /\ [][NextUnits]_vars

----------------------------------------------------------------------------
(* Properties of the unit registry, checked under SpecUnits *)

UniqueNames ==
    \A a, b \in DOMAIN units : units[a].name = units[b].name => a = b

(* a create, or an update of an existing unit, to the name of another unit *)
TakesNameOfAnother(unit_id, name) ==
    /\ unit_id = NewId \/ unit_id \in DOMAIN units
    /\ \E other \in DOMAIN units : other # unit_id /\ units[other].name = name

(* C17: no two units ever have the same name, and a create or update by  *)
(* a signed-in user that would give a unit the name of another unit      *)
(* fails and leaves the units as they were.                              *)
C17_UniqueUnitNames ==
    /\ []UniqueNames
    /\ [][\/ (units' = units /\ out_result' = "500 IntegrityError")
          \/ ~\E token \in TokenInputs, unit_id \in SaveUnitIdInputs,
                 name \in UnitNameInputs :
                /\ get_current_user(token) # NoUser
                /\ TakesNameOfAnother(unit_id, name)
                /\ save_unit(token, unit_id, TRUE, name)]_vars

C17_Witness ==
    /\ out_result = "500 IntegrityError"
    /\ Cardinality(DOMAIN units) = 3
    /\ units[1].name = "Halcyon"
    /\ units[3].name = "Linac 1"
    /\ UniqueNames

----------------------------------------------------------------------------
(* models.py QAReport: the derived counts of a report's tests *)

pass_count(report_id) ==
    Cardinality({t \in TestsOf(report_id) : t.status = "pass"})

fail_count(report_id) ==
    Cardinality({t \in TestsOf(report_id) : t.status = "fail"})

total_tests_AllAnswered(report_id) ==
    Cardinality({t \in TestsOf(report_id) : t.status # Unset})

total_tests(report_id) ==
    Cardinality({t \in TestsOf(report_id) : t.status \in {"pass", "fail"}})

(* daily forms that mark the first items pass, the next fail, the next  *)
(* n/a, and leave the rest of the checklist out                          *)
MarkedForm(passes, fails, nas) ==
    {[id |-> SASQART_TESTS["daily"][i],
      status |-> IF i <= passes THEN "pass"
                 ELSE IF i <= passes + fails THEN "fail" ELSE "na"] :
       i \in 1..(passes + fails + nas)}

CountForms ==
    {MarkedForm(passes, fails, nas) :
       passes \in 0..3, fails \in 0..2, nas \in 0..1}

NextCounts ==
    \/ \E username \in UsernameInputs, password_ok \in BOOLEAN :
         login(username, password_ok)
    \/ \E token \in TokenInputs : qa_begin(1, token)
    \/ qa_flush(1, "daily", 1, 1, TRUE)
    \/ \E form \in CountForms : qa_commit(1, form)
    \/ qa_audit(1)

SpecCounts == Init /\ [][NextCounts]_vars

----------------------------------------------------------------------------
(* Properties of the derived counts, checked under SpecCounts *)

StatusCount(report_id, statuses) ==
    Cardinality({t \in tests : t.report_id = report_id /\ t.status \in statuses})

(* C18: for every report pass_count is the number of its tests with      *)
(* status pass, fail_count the number with status fail, and total_tests  *)
(* their sum, so that the tests marked n/a or left unset are counted in  *)
(* none of the three.                                                    *)
C18_DerivedCounts ==
    \A r \in reports :
      /\ pass_count(r.id) = StatusCount(r.id, {"pass"})
      /\ fail_count(r.id) = StatusCount(r.id, {"fail"})
      /\ total_tests(r.id) = pass_count(r.id) + fail_count(r.id)
      /\ total_tests(r.id) + StatusCount(r.id, {"na", Unset}) <=
           Cardinality(TestsOf(r.id))

C18_Witness ==
    \E r \in reports :
      /\ StatusCount(r.id, {"na"}) = 1
      /\ StatusCount(r.id, {Unset}) = 3
      /\ pass_count(r.id) = 3
      /\ fail_count(r.id) = 2
      /\ total_tests(r.id) = 5

----------------------------------------------------------------------------
(* Two handlers saving reports of one unit and type, on one of two dates *)

SameTypeInputs == {"quarterly"}
SameUnitInputs == {1}
SameForms == {{}, {[id |-> "Q1", status |-> "pass"]}}

NextSame ==
    \/ \E username \in UsernameInputs, password_ok \in BOOLEAN :
         login(username, password_ok)
    \/ \E p \in Procs, token \in TokenInputs : qa_begin(p, token)
    \/ \E p \in Procs, qa_type \in SameTypeInputs, qa_date \in Dates,
          unit_id \in SameUnitInputs :
         qa_flush(p, qa_type, qa_date, unit_id, TRUE)
    \/ \E p \in Procs, form \in SameForms : qa_commit(p, form)
    \/ \E p \in Procs : qa_audit(p)

SpecSame == Init /\ [][NextSame]_vars

----------------------------------------------------------------------------
(* Properties of repeated sessions, checked under SpecSame *)

SameKey(a, b) ==
    a.unit_id = b.unit_id /\ a.date = b.date /\ a.qa_type = b.qa_type

(* C19: a second save for the unit, date and qa_type of a stored report  *)
(* is not refused: its header is flushed under an id no stored report    *)
(* has and its commit adds it and its tests beside what is stored,       *)
(* whether the first request has finished or is still in flight; stored  *)
(* reports have distinct ids and each has the full checklist under its   *)
(* own id.                                                               *)
C19_SameKeyCoexist ==
    /\ [](\A a, b \in reports :
            /\ a.id = b.id => a = b
            /\ Cardinality(TestsOf(a.id)) = Len(SASQART_TESTS[a.qa_type])
            /\ TestIdsOf(a.id) = ItemIds(a.qa_type))
    /\ [][\A p \in Procs, r \in reports :
            /\ qa_flush(p, r.qa_type, r.date, r.unit_id, TRUE) =>
                 /\ pc'[p] = "flushed"
                 /\ SameKey(report'[p], r)
                 /\ \A x \in reports : x.id # report'[p].id
            /\ (/\ pc[p] = "flushed"
                /\ SameKey(report[p], r)
                /\ \E form \in SameForms : qa_commit(p, form)) =>
                 /\ pc'[p] = "committed"
                 /\ reports' = reports \cup {report[p]}
                 /\ report[p] \notin reports
                 /\ tests \subseteq tests'
                 /\ TestIdsOf(report[p].id)' = ItemIds(report[p].qa_type)]_vars

C19_Witness ==
    /\ pc[1] = "committed"
    /\ pc[2] = "committed"
    /\ SameKey(report[1], report[2])
    /\ report[1].id # report[2].id
    /\ reports = {report[1], report[2]}
    /\ \A r \in reports : TestIdsOf(r.id) = ItemIds(r.qa_type)
    /\ {t.report_id : t \in tests} = {1, 2}

----------------------------------------------------------------------------
(* GET /logout, POST /admin/users, GET /admin/backup, GET /admin/export *)

MaxUsers == 2

(* the cookie is deleted in the browser; the token itself stays valid *)
logout(token) ==
    /\ IF get_current_user(token) = NoUser
         THEN UNCHANGED audit_log
         ELSE /\ WriteLockFree(0)
              /\ Len(audit_log) < MaxAudit
              /\ log_audit(users[get_current_user(token)].username,
                           "LOGOUT", "User logged out")
    /\ out_result' = "303 /login"
    /\ UNCHANGED <<users, units, sessions, reports, tests, readings, backups,
                   proc_vars>>

(* an admin check that asks for a signed-in user only *)
IsAdmin_AnyRole(token) == get_current_user(token) # NoUser

(* `not user or user.role != "admin"` of the admin handlers *)
IsAdmin(token) ==
    /\ get_current_user(token) # NoUser
    /\ users[get_current_user(token)].role = "admin"

SaveUserIdInputs == {NewId, 1, 9}
SaveUsernameInputs == {"admin", "bob"}
RoleInputs == {"admin", "physicist"}

UserTarget(user_id) ==
    IF user_id = NewId THEN MaxOf(DOMAIN users) + 1 ELSE user_id

(* users.username is UNIQUE, NOT NULL and users.hashed_password NOT NULL; *)
(* the forms modelled carry no email                                      *)
UserRefused(user_id, has_username, username, has_password) ==
    \/ ~has_username
    \/ \E other \in DOMAIN users \ {UserTarget(user_id)} :
         users[other].username = username
    \/ user_id = NewId /\ ~has_password

UserSaved(user_id, username, role, active) ==
    (UserTarget(user_id) :>
       [username |-> username, role |-> role, active |-> active]) @@ users

save_user(token, user_id, has_username, username, role, active, has_password) ==
    /\ IF ~IsAdmin(token)
         THEN /\ out_result' = "403 Admin access required"
              /\ UNCHANGED <<users, audit_log>>
       ELSE IF user_id # NewId /\ user_id \notin DOMAIN users
         THEN /\ out_result' = "500 AttributeError"
              /\ UNCHANGED <<users, audit_log>>
       ELSE IF UserRefused(user_id, has_username, username, has_password)
         THEN /\ out_result' = "500 IntegrityError"
              /\ UNCHANGED <<users, audit_log>>
         ELSE /\ WriteLockFree(0)
              /\ user_id = NewId => Cardinality(DOMAIN users) < MaxUsers
              /\ Len(audit_log) < MaxAudit
              /\ users' = UserSaved(user_id, username, role, active)
              /\ log_audit(users'[get_current_user(token)].username,
                           "SAVE_USER", [user |-> username])
              /\ out_result' = "303 /admin/users"
    /\ UNCHANGED <<units, sessions, reports, tests, readings, backups, proc_vars>>

(* the second of the clock that names the backup file *)
BackupTimes == {1}

(* database.py backup_database: copy2 onto linac_qa_<timestamp>.db *)
backup_database(now) == backups' = backups \cup {now}

create_backup(token, now) ==
    /\ IF ~IsAdmin(token)
         THEN /\ out_result' = "403 Admin access required"
              /\ UNCHANGED <<backups, audit_log>>
         ELSE /\ WriteLockFree(0)
              /\ Len(audit_log) < MaxAudit
              /\ backup_database(now)
              /\ log_audit(users[get_current_user(token)].username,
                           "BACKUP", [backup |-> now])
              /\ out_result' = "303 /admin/audit"
    /\ UNCHANGED <<users, units, sessions, reports, tests, readings, proc_vars>>

(* database.py export_to_json: every table but users, as committed *)
export_to_json ==
    [units |-> units,
     reports |-> {[report |-> r, tests |-> TestsOf(r.id)] : r \in reports},
     output_readings |-> readings,
     audit_log |-> audit_log]

export_data(token) ==
    /\ IF ~IsAdmin(token)
         THEN /\ out_result' = "403 Admin access required"
              /\ UNCHANGED audit_log
         ELSE /\ WriteLockFree(0)
              /\ Len(audit_log) < MaxAudit
              /\ log_audit(users[get_current_user(token)].username,
                           "EXPORT", "Full database export")
              /\ out_result' = "200 export"
    /\ UNCHANGED <<users, units, sessions, reports, tests, readings, backups,
                   proc_vars>>

(* every handler that writes the audit log, on a small store *)
AuditUsernameInputs == {"admin", "bob"}

NextAudit ==
    \/ \E username \in AuditUsernameInputs, password_ok \in BOOLEAN :
         login(username, password_ok)
    \/ \E token \in TokenInputs : logout(token)
    \/ \E token \in TokenInputs : qa_begin(1, token)
    \/ qa_flush(1, "quarterly", 1, 1, TRUE)
    \/ qa_commit(1, {})
    \/ qa_audit(1)
    \/ \E token \in TokenInputs, unit_id \in {NewId, 1} :
         save_unit(token, unit_id, TRUE, "Halcyon")
    \/ \E token \in TokenInputs, user_id \in SaveUserIdInputs,
          username \in SaveUsernameInputs, role \in RoleInputs :
         save_user(token, user_id, TRUE, username, role, TRUE, TRUE)
    \/ \E token \in TokenInputs, now \in BackupTimes : create_backup(token, now)
    \/ \E token \in TokenInputs : export_data(token)

SpecAudit == Init /\ [][NextAudit]_vars

----------------------------------------------------------------------------
(* Properties of the audit log, checked under SpecAudit *)

AuditActions == {audit_log[i].action : i \in DOMAIN audit_log}

(* C20: over every step of login, logout, save QA, save unit, save user, *)
(* backup and export the audit log keeps each entry it has, unchanged    *)
(* and in its place, and does not get shorter.                           *)
C20_AuditAppendOnly ==
    [][/\ Len(audit_log') >= Len(audit_log)
       /\ \A i \in DOMAIN audit_log : audit_log'[i] = audit_log[i]]_vars

C20_Witness ==
    /\ Len(audit_log) >= 4
    /\ audit_log[1].action = "LOGIN"
    /\ {"BACKUP", "SAVE_USER", "SAVE_QA"} \subseteq AuditActions

----------------------------------------------------------------------------
(* GET /admin/users, GET /admin/audit : the admin's read-only pages *)

AuditPageLimit == 200

users_page(token) ==
    IF ~IsAdmin(token)
      THEN [status |-> 303, users |-> {}]
      ELSE [status |-> 200, users |-> {[id |-> u, row |-> users[u]] : u \in DOMAIN users}]

(* order_by(AuditLog.timestamp.desc()).limit(200): newest entry first *)
audit_page(token) ==
    IF ~IsAdmin(token)
      THEN [status |-> 303, logs |-> <<>>]
      ELSE [status |-> 200,
            logs |-> [i \in 1..(IF Len(audit_log) < AuditPageLimit
                                  THEN Len(audit_log) ELSE AuditPageLimit) |->
                        audit_log[Len(audit_log) + 1 - i]]]

(* the admin handlers, with users that are renamed, demoted and          *)
(* deactivated                                                           *)
NextAdmin ==
    \/ \E username \in AuditUsernameInputs, password_ok \in BOOLEAN :
         login(username, password_ok)
    \/ \E token \in TokenInputs, user_id \in SaveUserIdInputs,
          username \in SaveUsernameInputs, role \in RoleInputs,
          active \in BOOLEAN :
         save_user(token, user_id, TRUE, username, role, active, TRUE)
    \/ \E token \in TokenInputs, now \in BackupTimes : create_backup(token, now)
    \/ \E token \in TokenInputs : export_data(token)

SpecAdmin == Init /\ [][NextAdmin]_vars

(* the writing handlers, with users that are added and deactivated *)
AdminReadingData ==
    [date : {1}, unit_id : {1}, energy : EnergyInputs, reading : {98},
     reference : {100}]

NextCallers ==
    \/ \E username \in AuditUsernameInputs, password_ok \in BOOLEAN :
         login(username, password_ok)
    \/ \E token \in TokenInputs : qa_begin(1, token)
    \/ qa_flush(1, "quarterly", 1, 1, TRUE)
    \/ qa_commit(1, {})
    \/ qa_audit(1)
    \/ \E token \in TokenInputs : save_unit(token, 1, TRUE, "Halcyon")
    \/ \E token \in TokenInputs, user_id \in {NewId, 1},
          username \in SaveUsernameInputs, active \in BOOLEAN :
         save_user(token, user_id, TRUE, username, "admin", active, TRUE)
    \/ \E token \in TokenInputs, data \in AdminReadingData :
         save_output_reading(token, data)

SpecCallers == Init /\ [][NextCallers]_vars

----------------------------------------------------------------------------
(* Properties of the admin handlers, checked under SpecAdmin, and of the *)
(* callers without a valid user, checked under SpecCallers               *)

(* a cookie that names no user who is stored, active and unexpired *)
NoValidUser(token) ==
    \/ token = NoToken
    \/ token.expired
    \/ token.user_id \notin DOMAIN users
    \/ ~users[token.user_id].active

NotAdmin(token) ==
    NoValidUser(token) \/ users[token.user_id].role # "admin"

AdminEntryAdded ==
    /\ Len(audit_log') > Len(audit_log)
    /\ audit_log'[Len(audit_log')].action \in {"SAVE_USER", "BACKUP", "EXPORT"}

(* C21: a caller who is not a signed-in active admin is shown no users   *)
(* and no audit entries, and a save-user, backup or export request of    *)
(* such a caller is answered 403 and changes no user, no backup and no   *)
(* audit entry; a step that changes a user, adds a backup, returns an    *)
(* export or appends a SAVE_USER, BACKUP or EXPORT entry happens only    *)
(* while some signed-in active admin exists to make it.                  *)
C21_AdminOnly ==
    /\ [](\A token \in TokenInputs :
            NotAdmin(token) =>
              /\ users_page(token) = [status |-> 303, users |-> {}]
              /\ audit_page(token) = [status |-> 303, logs |-> <<>>])
    /\ [][\/ /\ users' = users /\ backups' = backups /\ audit_log' = audit_log
             /\ out_result' = "403 Admin access required"
          \/ ~\E token \in TokenInputs :
                /\ NotAdmin(token)
                /\ \/ \E user_id \in SaveUserIdInputs,
                         username \in SaveUsernameInputs, role \in RoleInputs,
                         active \in BOOLEAN :
                        save_user(token, user_id, TRUE, username, role, active, TRUE)
                   \/ \E now \in BackupTimes : create_backup(token, now)
                   \/ export_data(token)]_vars
    /\ [][(\/ users' # users \/ backups' # backups \/ AdminEntryAdded
           \/ (out_result' = "200 export" /\ out_result # "200 export")) =>
            \E token \in TokenInputs : ~NotAdmin(token)]_vars

C21_Witness ==
    /\ out_result = "403 Admin access required"
    /\ sessions = {1}
    /\ users[1].active /\ users[1].role = "physicist"
    /\ \A u \in DOMAIN users : users[u].role = "admin" => ~users[u].active
    /\ users_page(TokenOf(1)).status = 303
    /\ audit_page(TokenOf(1)).logs = <<>>
    /\ \E i \in DOMAIN audit_log : audit_log[i].action = "SAVE_USER"

(* C22: a save-QA, save-unit, save-user or output-reading request whose  *)
(* cookie is missing or expired, or names a user who is unknown or has   *)
(* been deactivated while the token is still unexpired, leaves units,    *)
(* reports, tests, readings, users and the audit log as they were and    *)
(* starts no handler work.                                               *)
C22_InvalidCallerNoEffect ==
    [][\/ /\ UNCHANGED <<units, reports, tests, readings, users, audit_log>>
          /\ pc' = pc
       \/ ~\E token \in TokenInputs :
             /\ NoValidUser(token)
             /\ \/ qa_begin(1, token)
                \/ save_unit(token, 1, TRUE, "Halcyon")
                \/ \E user_id \in {NewId, 1},
                      username \in SaveUsernameInputs, active \in BOOLEAN :
                     save_user(token, user_id, TRUE, username, "admin", active, TRUE)
                \/ \E data \in AdminReadingData :
                     save_output_reading(token, data)]_vars

C22_Witness ==
    /\ sessions = {1}
    /\ DOMAIN users = {1}
    /\ ~users[1].active
    /\ TokenOf(1) \in TokenInputs
    /\ get_current_user(TokenOf(1)) = NoUser
    /\ out_result = "401 Authentication required"
    /\ readings # {}
    /\ reports # {}

============================================================================
